---- MODULE Spec2Model ----
(***************************************************************************)
(* Model of the tc-build scripts: the sequencing of subprocesses that      *)
(* build-llvm.py, build-binutils.py, build-rust.py and the tc_build        *)
(* library perform.  One behaviour is one execution of one entry point     *)
(* ("prog"); every subprocess the scripts start is one action, its exit    *)
(* status an input of that action.                                         *)
(***************************************************************************)
EXTENDS Integers, Sequences, FiniteSets, TLC

VARIABLES
    prog,     \* the entry point this execution runs
    pc,       \* the subprocess or call the script is about to start
    args,     \* the parsed command line options
    stage,    \* build-llvm.py: the stage invoke_cmake / invoke_ninja work on
    pgo_i,    \* build-llvm.py: position of generate_pgo_profiles in args.pgo
    mode,     \* the BOLT mode chosen by do_bolt / bolt_clang
    perf,     \* what the host answered to the probe of can_use_perf
    log,      \* the subprocesses started so far, in order, with their outcome
    bolt_builder, \* LLVMBuilder.bolt_clang: the fields of self.bolt_builder
    files,    \* LLVMBuilder.bolt_clang: the binaries in the build folder
    repo,     \* the git repository a script fetches, and the process's cwd
    fs,       \* the tarball and the source folder on disk
    last,     \* what the last checksum verification computed and how it ended
    run,      \* build-binutils.py: the number of the current run of the script
    env,      \* what the host answers: platform.machine(), uname, which, PATH
    out,      \* what a function returned or raised, or the command line it built
    defines   \* build-llvm.py: LLVM_ENABLE_PROJECTS of each configured stage

vars == <<prog, pc, args, stage, pgo_i, mode, perf, log, bolt_builder, files,
          repo, fs, last, run, env, out, defines>>

\* the variables an entry point does not use keep these values
NoProbe == [which |-> FALSE, probe_ok |-> FALSE]
NoBuilder == [bolt_instrumentation |-> FALSE, bolt_sampling_output |-> FALSE,
              toolchain_prefix |-> FALSE]
NoFiles == [real |-> "", inst |-> FALSE, orig |-> FALSE]
NoRepo == [exists |-> FALSE, cloned |-> FALSE, shallow |-> FALSE,
           cwd_shallow |-> FALSE, ref_exists |-> FALSE]
NoFs == [tarball |-> "absent", folder |-> "absent", previous |-> FALSE]
NoLast == [exc |-> "", computed |-> "", expected |-> ""]
NoEnv == [machine |-> ""]
NoOut == [exc |-> ""]
NoDefines == [s \in 0..3 |-> <<>>]

\* what no action of the LLVM build touches
sourceVars == <<repo, fs, last, run, env, out>>

(***************************************************************************)
(* Bounds                                                                  *)
(***************************************************************************)
\* longest list of benchmarks given to --pgo
MaxPgo == 2

(***************************************************************************)
(* build-llvm.py: options                                                  *)
(***************************************************************************)
\* invoke_ninja and invoke_cmake take 1, 2, 3 or the string "pgo" as stage;
\* the string is written 0 here, a value no numbered stage has
PGO == 0

\* the benchmarks of --pgo as generate_pgo_profiles sees them after
\* pgo.split("-"); three of the seven choices, one of each shape
PGO_BENCHMARKS ==
    {<<"kernel", "defconfig">>, <<"kernel", "allmodconfig", "slim">>, <<"llvm">>}

RECURSIVE SeqsUpTo(_, _)
SeqsUpTo(S, n) ==
    IF n = 0 THEN {<<>>}
    ELSE LET shorter == SeqsUpTo(S, n - 1)
         IN shorter \cup {Append(s, x) : s \in shorter, x \in S}

\* parse_parameters: --build-stage1-only and --pgo are in one mutually
\* exclusive group; an option with nargs="+" that is absent is None (<<>>)
\* a ';' separated --projects string as the sequence of its parts; <<>> is
\* an option that was not given
PROJECT_LISTS == {<<>>, <<"all">>, <<"clang", "lld">>, <<"bolt", "clang", "lld">>}

LLVMArgs ==
    {a \in [build_stage1_only : BOOLEAN,
            install_stage1_only : BOOLEAN,
            pgo : SeqsUpTo(PGO_BENCHMARKS, MaxPgo),
            bolt : BOOLEAN,
            check_targets : BOOLEAN,
            full_toolchain : BOOLEAN,
            projects : PROJECT_LISTS] :
        ~(a.build_stage1_only /\ a.pgo # <<>>)}

get_final_stage_without_pgo(a) == IF a.build_stage1_only THEN 1 ELSE 2

get_final_stage(a) ==
    IF a.build_stage1_only THEN 1
    ELSE IF a.pgo # <<>> THEN 3
    ELSE 2

should_install_toolchain_any_stage(a, s) ==
    ~(a.build_stage1_only /\ ~a.install_stage1_only)

should_install_toolchain(a, s) ==
    IF s # get_final_stage(a) THEN FALSE
    ELSE IF a.build_stage1_only /\ ~a.install_stage1_only THEN FALSE
    ELSE TRUE

bootstrap_stage(a, s) == ~a.build_stage1_only /\ s = 1

instrumented_stage_3(a, s) == a.pgo # <<>> /\ s = 3

instrumented_stage(a, s) == a.pgo # <<>> /\ s = 2

pgo_stage(s) == s = PGO

\* "bolt" in projects, on strings: no name of an LLVM project has the name
\* of another one as a part
in_projects(name, projects) == \E i \in DOMAIN projects : projects[i] = name

\* project_cmake_defines: the value of LLVM_ENABLE_PROJECTS
project_cmake_defines(a, s) ==
    LET projects ==
            IF a.full_toolchain
            THEN IF a.projects # <<>> THEN a.projects ELSE <<"all">>
            ELSE IF bootstrap_stage(a, s)
                 THEN <<"clang", "lld">>
                      \o (IF a.bolt THEN <<"bolt">> ELSE <<>>)
                      \o (IF a.pgo # <<>> THEN <<"compiler-rt">> ELSE <<>>)
                 ELSE IF instrumented_stage(a, s) THEN <<"clang", "lld">>
                 ELSE IF a.projects # <<>> THEN a.projects
                 ELSE <<"clang", "compiler-rt", "lld", "polly">>
    IN IF a.bolt /\ a.build_stage1_only /\ projects # <<"all">>
          /\ ~in_projects("bolt", projects)
       THEN Append(projects, "bolt")
       ELSE projects

\* invoke_cmake: the defines the build folder of the stage is configured with
invoke_cmake(d, a, s) == [d EXCEPT ![s] = project_cmake_defines(a, s)]

\* the list do_multistage_build iterates over
Stages(a) ==
    <<1>> \o (IF ~a.build_stage1_only
              THEN <<2>> \o (IF a.pgo # <<>> THEN <<3>> ELSE <<>>)
              ELSE <<>>)

(***************************************************************************)
(* build-llvm.py: control flow between two subprocesses.  A continuation   *)
(* is the next subprocess to start (pc), the stage it belongs to and the   *)
(* position in args.pgo.                                                   *)
(***************************************************************************)
Cont(p, s, i) == [pc |-> p, stage |-> s, pgo_i |-> i]

LLVMPipeline == prog = "do_multistage_build"

\* do_multistage_build: the for loop moves on to the next stage
NextStage(a, s) ==
    LET st == Stages(a)
        k == CHOOSE k \in 1..Len(st) : st[k] = s
    IN IF k = Len(st) THEN Cont("done", s, 0)
       ELSE Cont("invoke_cmake", st[k + 1], 0)

\* pgo_llvm_build: the check targets on stage 2, then LLVM as a benchmark
pgo_llvm_build(a, i) ==
    IF a.check_targets THEN Cont("pgo_ninja_check", 2, i)
    ELSE Cont("invoke_cmake", PGO, i)

\* generate_pgo_profiles: the loop over args.pgo at position i, then the merge
generate_pgo_profiles(a, i) ==
    IF i > Len(a.pgo) THEN Cont("llvm_profdata", 2, 0)
    ELSE IF a.pgo[i][1] = "kernel" THEN Cont("pgo_kernel_build_sh", 2, i)
    ELSE IF a.pgo[i][1] = "llvm" THEN pgo_llvm_build(a, i)
    ELSE Cont("llvm_profdata", 2, 0)

\* invoke_ninja has returned to its caller
AfterInvokeNinja(a, s, i) ==
    IF pgo_stage(s) THEN generate_pgo_profiles(a, i + 1)
    ELSE IF instrumented_stage(a, s) THEN generate_pgo_profiles(a, 1)
    ELSE NextStage(a, s)

\* invoke_ninja after ninja and the check targets
AfterNinjaCheck(a, s, i) ==
    IF should_install_toolchain(a, s) THEN Cont("ninja_install", s, i)
    ELSE AfterInvokeNinja(a, s, i)

\* invoke_ninja after 'ninja'
AfterNinja(a, s, i) ==
    IF s = get_final_stage(a) /\ a.check_targets THEN Cont("ninja_check", s, i)
    ELSE AfterNinjaCheck(a, s, i)

\* invoke_ninja after 'ninja install'
AfterNinjaInstall(a, s, i) ==
    IF a.bolt THEN Cont("can_use_perf", s, i)
    ELSE AfterInvokeNinja(a, s, i)

\* the profile type kernel_build_sh is called with
ProfileType(p, a, i, m) ==
    IF p = "bolt_kernel_build_sh" THEN "bolt-" \o m
    ELSE IF Len(a.pgo[i]) = 3 THEN "pgo-slim"
    ELSE "pgo"

(***************************************************************************)
(* subprocess.run(cmd, check=True): a non-zero exit status raises          *)
(* CalledProcessError, which no caller in the pipeline catches.            *)
(***************************************************************************)
run_unchecked(ok, next) == next

run_checked(ok, next) ==
    IF ok THEN next ELSE Cont("CalledProcessError", next.stage, next.pgo_i)

Entry(cmd, s, ok) == [cmd |-> cmd, stage |-> s, ok |-> ok]

\* one subprocess of the pipeline: it is started, exits, and the script
\* goes on to what follows it
Run(cmd, next) ==
    /\ \E ok \in BOOLEAN :
         LET c == run_checked(ok, next)
         IN /\ log' = Append(log, Entry(cmd, stage, ok))
            /\ pc' = c.pc
            /\ stage' = c.stage
            /\ pgo_i' = c.pgo_i
    /\ defines' = IF cmd = "cmake" THEN invoke_cmake(defines, args, stage) ELSE defines
    /\ UNCHANGED <<prog, args, mode, perf, bolt_builder, files, sourceVars>>

InvokeCmake ==
    /\ LLVMPipeline
    /\ pc = "invoke_cmake"
    /\ Run("cmake", Cont("invoke_ninja", stage, pgo_i))

InvokeNinja ==
    /\ LLVMPipeline
    /\ pc = "invoke_ninja"
    /\ Run("ninja", AfterNinja(args, stage, pgo_i))

NinjaCheck ==
    /\ LLVMPipeline
    /\ pc = "ninja_check"
    /\ Run("ninja check", AfterNinjaCheck(args, stage, pgo_i))

NinjaInstall ==
    /\ LLVMPipeline
    /\ pc = "ninja_install"
    /\ Run("ninja install", AfterNinjaInstall(args, stage, pgo_i))

PgoNinjaCheck ==
    /\ LLVMPipeline
    /\ pc = "pgo_ninja_check"
    /\ Run("ninja check", Cont("invoke_cmake", PGO, pgo_i))

PgoKernelBuildSh ==
    /\ LLVMPipeline
    /\ pc = "pgo_kernel_build_sh"
    /\ Run("build.sh --" \o ProfileType(pc, args, pgo_i, mode),
         generate_pgo_profiles(args, pgo_i + 1))

LlvmProfdata ==
    /\ LLVMPipeline
    /\ pc = "llvm_profdata"
    /\ Run("llvm-profdata merge", NextStage(args, 2))

can_use_perf_which_only(which, probe_ok) == which

\* can_use_perf: perf has to be in PATH and the probe has to exit with 0; the
\* probe's CalledProcessError is caught
can_use_perf(which, probe_ok) == which /\ probe_ok

\* do_bolt up to its first llvm-bolt or kernel_build_sh
DoBolt ==
    /\ LLVMPipeline
    /\ pc = "can_use_perf"
    /\ \E which \in BOOLEAN, probe_ok \in BOOLEAN :
         LET sampling == can_use_perf(which, probe_ok)
         IN /\ perf' = [which |-> which, probe_ok |-> probe_ok]
            /\ mode' = IF sampling THEN "sampling" ELSE "instrumentation"
            /\ log' = Append(log, Entry("can_use_perf", stage, sampling))
            /\ pc' = IF mode' = "instrumentation" THEN "bolt_instrument"
                     ELSE "bolt_kernel_build_sh"
    /\ UNCHANGED <<prog, defines, args, stage, pgo_i, bolt_builder, files, sourceVars>>

BoltInstrument ==
    /\ LLVMPipeline
    /\ pc = "bolt_instrument"
    /\ Run("llvm-bolt --instrument",
         Cont("bolt_kernel_build_sh", stage, pgo_i))

BoltKernelBuildSh ==
    /\ LLVMPipeline
    /\ pc = "bolt_kernel_build_sh"
    /\ Run("build.sh --" \o ProfileType(pc, args, pgo_i, mode),
         IF mode = "instrumentation" THEN Cont("merge_fdata", stage, pgo_i)
         ELSE IF mode = "sampling" THEN Cont("perf2bolt", stage, pgo_i)
         ELSE Cont("bolt_optimize", stage, pgo_i))

MergeFdata ==
    /\ LLVMPipeline
    /\ pc = "merge_fdata"
    /\ Run("merge-fdata", Cont("bolt_optimize", stage, pgo_i))

Perf2Bolt ==
    /\ LLVMPipeline
    /\ pc = "perf2bolt"
    /\ Run("perf2bolt", Cont("bolt_optimize", stage, pgo_i))

BoltOptimize ==
    /\ LLVMPipeline
    /\ pc = "bolt_optimize"
    /\ Run("llvm-bolt", AfterInvokeNinja(args, stage, pgo_i))

\* do_multistage_build is entered: the first stage of the list is configured
InitBuildLLVM ==
    /\ prog = "do_multistage_build"
    /\ args \in LLVMArgs
    /\ pc = "invoke_cmake"
    /\ stage = Stages(args)[1]
    /\ pgo_i = 0
    /\ mode = ""
    /\ perf = NoProbe
    /\ log = <<>>
    /\ bolt_builder = NoBuilder
    /\ files = NoFiles
    /\ repo = NoRepo /\ fs = NoFs /\ last = NoLast /\ run = 0
    /\ env = NoEnv /\ out = NoOut /\ defines = NoDefines

(***************************************************************************)
(* tc_build/llvm.py: LLVMBuilder.bolt_clang                                *)
(***************************************************************************)
BoltClang == prog = "bolt_clang"

\* LLVMBuilder.can_use_perf
LLVMBuilder_can_use_perf(which, probe_ok) == which /\ probe_ok

\* multicall_is_enabled: LLVM_TOOL_LLVM_DRIVER_BUILD of cmake_defines is 'ON'
multicall_is_enabled(a) == a.LLVM_TOOL_LLVM_DRIVER_BUILD = "ON"

\* tc_build.utils.cpu_is_apple_silicon: a fact about the host
cpu_is_apple_silicon(host) == host = "apple silicon"

\* a step of bolt_clang that runs a command with check=True
BcRun(cmd, next_pc) ==
    \E ok \in BOOLEAN :
        /\ log' = Append(log, Entry(cmd, 0, ok))
        /\ pc' = run_checked(ok, Cont(next_pc, 0, 0)).pc

\* bolt_clang from its start to the first command it runs
BcSelectMode ==
    /\ BoltClang
    /\ pc = "bolt_clang"
    /\ \E which \in BOOLEAN, probe_ok \in BOOLEAN :
         LET sampling == LLVMBuilder_can_use_perf(which, probe_ok)
         IN /\ perf' = [which |-> which, probe_ok |-> probe_ok]
            /\ mode' = IF sampling THEN "sampling" ELSE "instrumentation"
            /\ log' = Append(log, Entry("can_use_perf", 0, sampling))
            /\ IF mode' = "instrumentation"
               THEN /\ pc' = "bc_instrument"
                    /\ UNCHANGED bolt_builder
               ELSE /\ pc' = "bc_build"
                    /\ bolt_builder' = [bolt_builder EXCEPT
                                           !.bolt_sampling_output = TRUE,
                                           !.toolchain_prefix = TRUE]
    /\ UNCHANGED <<prog, defines, args, stage, pgo_i, files, sourceVars>>

\* llvm-bolt --instrument, then either the shuffle of the multicall binary
\* or bolt_instrumentation for the kernel build
BcInstrument ==
    /\ BoltClang
    /\ pc = "bc_instrument"
    /\ \E host \in {"apple silicon", "other"} :
         BcRun(IF cpu_is_apple_silicon(host)
               THEN "llvm-bolt --instrument --conservative-instrumentation"
               ELSE "llvm-bolt --instrument", "bc_build")
    /\ IF pc' = "bc_build"
       THEN IF multicall_is_enabled(args)
            THEN /\ files' = [real |-> "instrumented", inst |-> FALSE, orig |-> TRUE]
                 /\ bolt_builder' = [bolt_builder EXCEPT !.toolchain_prefix = TRUE]
            ELSE /\ files' = [files EXCEPT !.inst = TRUE]
                 /\ bolt_builder' = [bolt_builder EXCEPT
                                        !.bolt_instrumentation = TRUE,
                                        !.toolchain_prefix = TRUE]
       ELSE UNCHANGED <<files, bolt_builder>>
    /\ UNCHANGED <<prog, defines, args, stage, pgo_i, mode, perf, sourceVars>>

\* self.bolt_builder.build(): the kernel builds that produce the profile
BcBuild ==
    /\ BoltClang
    /\ pc = "bc_build"
    /\ BcRun("bolt_builder.build",
             IF mode = "instrumentation" THEN "bc_merge_fdata"
             ELSE IF mode = "sampling" THEN "bc_perf2bolt"
             ELSE "bc_optimize")
    /\ IF pc' = "bc_merge_fdata" /\ multicall_is_enabled(args)
       THEN files' = [real |-> "built", inst |-> TRUE, orig |-> FALSE]
       ELSE UNCHANGED files
    /\ UNCHANGED <<prog, defines, args, stage, pgo_i, mode, perf, bolt_builder, sourceVars>>

BcMergeFdata ==
    /\ BoltClang
    /\ pc = "bc_merge_fdata"
    /\ BcRun("merge-fdata", "bc_optimize")
    /\ UNCHANGED <<prog, defines, args, stage, pgo_i, mode, perf, bolt_builder, files, sourceVars>>

BcPerf2Bolt ==
    /\ BoltClang
    /\ pc = "bc_perf2bolt"
    /\ BcRun("perf2bolt", "bc_optimize")
    /\ UNCHANGED <<prog, defines, args, stage, pgo_i, mode, perf, bolt_builder, files, sourceVars>>

\* llvm-bolt with the profile, then the optimized binary replaces the real
\* one and the instrumented one is removed
BcOptimize ==
    /\ BoltClang
    /\ pc = "bc_optimize"
    /\ BcRun("llvm-bolt", "done")
    /\ IF pc' = "done"
       THEN files' = [files EXCEPT !.real = "optimized",
                                   !.inst = IF mode = "instrumentation" THEN FALSE ELSE @]
       ELSE UNCHANGED files
    /\ UNCHANGED <<prog, defines, args, stage, pgo_i, mode, perf, bolt_builder, sourceVars>>

\* a configured and built LLVMBuilder with bolt set calls bolt_clang
InitBoltClang ==
    /\ prog = "bolt_clang"
    /\ args \in [LLVM_TOOL_LLVM_DRIVER_BUILD : {"ON", "OFF"}]
    /\ pc = "bolt_clang"
    /\ stage = 0
    /\ pgo_i = 0
    /\ mode = ""
    /\ perf = NoProbe
    /\ log = <<>>
    /\ bolt_builder = NoBuilder
    /\ files = [real |-> "built", inst |-> FALSE, orig |-> FALSE]
    /\ repo = NoRepo /\ fs = NoFs /\ last = NoLast /\ run = 0
    /\ env = NoEnv /\ out = NoOut /\ defines = NoDefines

(***************************************************************************)
(* build-llvm.py: main up to cleanup(), with fetch_llvm                    *)
(***************************************************************************)
LLVMMain == prog = "build-llvm.py"

BRANCHES == {"main", "release/16.x"}

GOOD_REVISION == "5351878ba1963a84600df3a9e907b458b0529851"

\* what 'git symbolic-ref -q HEAD' prints after the checkout; "None" when it
\* fails because HEAD is a tag or a hash
LOCAL_REFS == {"refs/heads/main", "refs/remotes/origin/main", "None"}

\* local_ref and local_ref.startswith("refs/heads/")
is_branch(local_ref) == local_ref \in {"refs/heads/main"}

\* parse_parameters: --shallow-clone and --use-good-revision exclude each other
FetchArgs ==
    {a \in [llvm_folder : BOOLEAN,
            no_update : BOOLEAN,
            shallow_clone : BOOLEAN,
            use_good_revision : BOOLEAN,
            branch : BRANCHES] :
        ~(a.shallow_clone /\ a.use_good_revision)}

\* main: the ref handed to fetch_llvm
Ref(a) == IF a.use_good_revision THEN GOOD_REVISION ELSE a.branch

\* the repositories a run can find: one that is not there is neither shallow
\* nor has refs, and cwd_shallow says whether .git/shallow exists under the
\* directory the script was started in
Repos ==
    {r \in [exists : BOOLEAN, cloned : {FALSE}, shallow : BOOLEAN,
            cwd_shallow : BOOLEAN, ref_exists : {FALSE}] :
        ~r.exists => ~r.shallow}

\* repo_is_shallow: <repo>/<git dir>/shallow exists, the path made absolute
\* with the repository's own path
repo_is_shallow(r) == r.shallow

ref_exists(r) == r.ref_exists

\* fetch_llvm: what it does first
fetch_llvm(a, r) ==
    IF r.exists
    THEN IF ~a.no_update THEN "git_fetch" ELSE "cleanup"
    ELSE "git_clone"

main_always_fetch(a, r) == fetch_llvm(a, r)

\* main: a given --llvm-folder has to exist and is never fetched
main(a, r) ==
    IF a.llvm_folder
    THEN IF ~r.exists THEN "sys.exit(1)" ELSE "cleanup"
    ELSE fetch_llvm(a, r)

\* fetch_llvm after 'git fetch origin'
after_fetch(r) ==
    IF repo_is_shallow(r) /\ ~ref_exists(r) THEN "sys.exit(1)" ELSE "git_checkout"

\* the git clone command line of fetch_llvm
git_clone_cmd(a) ==
    IF a.shallow_clone
    THEN IF Ref(a) # "main" THEN "git clone --depth 1 --no-single-branch"
         ELSE "git clone --depth 1"
    ELSE "git clone"

\* a git command run with check=True
Git(cmd, ok, next_pc) ==
    /\ log' = Append(log, Entry(cmd, 0, ok))
    /\ pc' = run_checked(ok, Cont(next_pc, 0, 0)).pc

gitFrame ==
    <<prog, defines, args, stage, pgo_i, mode, perf, bolt_builder, files, fs, last, run, env, out>>

MainStart ==
    /\ LLVMMain
    /\ pc = "main"
    /\ pc' = main(args, repo)
    /\ UNCHANGED <<log, repo, gitFrame>>

GitFetch ==
    /\ LLVMMain
    /\ pc = "git_fetch"
    /\ \E ok \in BOOLEAN, found \in BOOLEAN :
         /\ repo' = IF ok THEN [repo EXCEPT !.ref_exists = found] ELSE repo
         /\ Git("git fetch origin", ok, after_fetch(repo'))
    /\ UNCHANGED gitFrame

GitCheckout ==
    /\ LLVMMain
    /\ pc = "git_checkout"
    /\ \E ok \in BOOLEAN, local_ref \in LOCAL_REFS :
         Git("git checkout", ok, IF is_branch(local_ref) THEN "git_pull" ELSE "cleanup")
    /\ UNCHANGED <<repo, gitFrame>>

GitPull ==
    /\ LLVMMain
    /\ pc = "git_pull"
    /\ \E ok \in BOOLEAN : Git("git pull --rebase", ok, "cleanup")
    /\ UNCHANGED <<repo, gitFrame>>

GitClone ==
    /\ LLVMMain
    /\ pc = "git_clone"
    /\ \E ok \in BOOLEAN :
         /\ Git(git_clone_cmd(args), ok, "git_checkout_clone")
         /\ repo' = IF ok THEN [repo EXCEPT !.exists = TRUE, !.cloned = TRUE,
                                            !.shallow = args.shallow_clone]
                    ELSE repo
    /\ UNCHANGED gitFrame

GitCheckoutClone ==
    /\ LLVMMain
    /\ pc = "git_checkout_clone"
    /\ \E ok \in BOOLEAN : Git("git checkout", ok, "cleanup")
    /\ UNCHANGED <<repo, gitFrame>>

InitLLVMMain ==
    /\ prog = "build-llvm.py"
    /\ args \in FetchArgs
    /\ repo \in Repos
    /\ pc = "main"
    /\ stage = 0 /\ pgo_i = 0 /\ mode = "" /\ perf = NoProbe /\ log = <<>>
    /\ bolt_builder = NoBuilder /\ files = NoFiles
    /\ fs = NoFs /\ last = NoLast /\ run = 0
    /\ env = NoEnv /\ out = NoOut /\ defines = NoDefines

(***************************************************************************)
(* build-rust.py with tc_build/source.py: GitSourceManager                 *)
(***************************************************************************)
RustMain == prog = "build-rust.py"

RUST_GOOD_REVISION == "69b3959afec9b5468d5de15133b199553f6e55d2"

\* --use-good-revision stores GOOD_REVISION in args.ref
RustArgs ==
    [rust_folder : BOOLEAN,
     no_update : BOOLEAN,
     ref : {"main", "1.80.0", RUST_GOOD_REVISION}]

\* GitSourceManager.is_shallow: 'git rev-parse --git-dir', run in the
\* repository, prints the relative path .git; Path(git_dir, 'shallow') is
\* then looked up from the directory the script was started in
is_shallow(r) == r.cwd_shallow

\* GitSourceManager.download: nothing to do for a repository that exists
download(r) == IF r.exists THEN "return" ELSE "rs_git_clone"

update_unless_no_update(a) == IF ~a.no_update THEN "rs_git_fetch" ELSE "configure"

\* build-rust.py after rust_source.download(args.ref)
after_download(a) ==
    IF ~(a.rust_folder \/ a.no_update) THEN "rs_git_fetch" ELSE "configure"

\* build-rust.py: source validation, then rust_source.download
rust_source(a, r) ==
    IF a.rust_folder /\ ~r.exists THEN "RuntimeError"
    ELSE IF download(r) = "return" THEN after_download(a)
    ELSE download(r)

\* GitSourceManager.update after 'git fetch origin'
update_after_fetch(r) ==
    IF is_shallow(r) /\ ~ref_exists(r) THEN "RuntimeError" ELSE "rs_git_checkout"

RustStart ==
    /\ RustMain
    /\ pc = "build-rust"
    /\ pc' = rust_source(args, repo)
    /\ UNCHANGED <<log, repo, gitFrame>>

RsGitClone ==
    /\ RustMain
    /\ pc = "rs_git_clone"
    /\ \E ok \in BOOLEAN :
         /\ Git("git clone", ok, "rs_git_checkout_clone")
         /\ repo' = IF ok THEN [repo EXCEPT !.exists = TRUE, !.cloned = TRUE]
                    ELSE repo
    /\ UNCHANGED gitFrame

RsGitCheckoutClone ==
    /\ RustMain
    /\ pc = "rs_git_checkout_clone"
    /\ \E ok \in BOOLEAN : Git("git checkout", ok, after_download(args))
    /\ UNCHANGED <<repo, gitFrame>>

RsGitFetch ==
    /\ RustMain
    /\ pc = "rs_git_fetch"
    /\ \E ok \in BOOLEAN, found \in BOOLEAN :
         /\ repo' = IF ok THEN [repo EXCEPT !.ref_exists = found] ELSE repo
         /\ Git("git fetch origin", ok, update_after_fetch(repo'))
    /\ UNCHANGED gitFrame

RsGitCheckout ==
    /\ RustMain
    /\ pc = "rs_git_checkout"
    /\ \E ok \in BOOLEAN, local_ref \in LOCAL_REFS :
         Git("git checkout", ok,
             IF is_branch(local_ref) THEN "rs_git_pull" ELSE "configure")
    /\ UNCHANGED <<repo, gitFrame>>

RsGitPull ==
    /\ RustMain
    /\ pc = "rs_git_pull"
    /\ \E ok \in BOOLEAN : Git("git pull --rebase", ok, "configure")
    /\ UNCHANGED <<repo, gitFrame>>

InitRustMain ==
    /\ prog = "build-rust.py"
    /\ args \in RustArgs
    /\ repo \in Repos
    /\ pc = "build-rust"
    /\ stage = 0 /\ pgo_i = 0 /\ mode = "" /\ perf = NoProbe /\ log = <<>>
    /\ bolt_builder = NoBuilder /\ files = NoFiles
    /\ fs = NoFs /\ last = NoLast /\ run = 0
    /\ env = NoEnv /\ out = NoOut /\ defines = NoDefines

(***************************************************************************)
(* tc_build/source.py: Tarball.download                                    *)
(***************************************************************************)
TarballProg == prog = "Tarball"

\* how often download() is called on the same local_location
MaxCalls == 2

\* what a file can hold: the released tarball or anything else
CONTENTS == {"release", "damaged"}

CHECKSUM_NAMES == {"", "sha256sums.asc", "sha512.sum", "md5sums"}

\* hashlib.sha256 / hashlib.sha512 / hashlib.md5: different files and
\* different algorithms give different digests
hexdigest(alg, content) ==
    CASE alg = "sha256" /\ content = "release" -> "a7c1"
      [] alg = "sha256" /\ content = "damaged" -> "e3b0"
      [] alg = "sha512" /\ content = "release" -> "9d3d"
      [] alg = "sha512" /\ content = "damaged" -> "cf83"
      [] alg = "md5" /\ content = "release" -> "5f4d"
      [] OTHER -> "d41d"

\* what the regular expression can find for the tarball in a checksum file
LISTED ==
    {"no match"} \cup {hexdigest(alg, c) : alg \in {"sha256", "sha512", "md5"}, c \in CONTENTS}

\* 'sha256' in name / 'sha512' in name
hashlib_for(name) ==
    CASE name = "sha256sums.asc" -> "sha256"
      [] name = "sha512.sum" -> "sha512"
      [] OTHER -> "None"

Outcome(exc, file, computed, expected) ==
    [exc |-> exc, file |-> file, computed |-> computed, expected |-> expected]

\* Tarball.download on object t with 'file' at local_location; curl_ok and
\* delivered are the tarball's download, partial is what a failed curl
\* leaves, sums_ok and listed are the checksum file's download
Tarball_download(t, file, curl_ok, delivered, partial, sums_ok, listed) ==
    IF ~t.local_location THEN Outcome("RuntimeError", file, "", "")
    ELSE IF file # "absent" THEN Outcome("", file, "", "")
    ELSE IF ~t.base_download_url THEN Outcome("RuntimeError", file, "", "")
    ELSE IF ~curl_ok THEN Outcome("CalledProcessError", partial, "", "")
    ELSE IF t.remote_checksum_name = "" THEN Outcome("", delivered, "", "")
    ELSE IF ~sums_ok THEN Outcome("CalledProcessError", delivered, "", "")
    ELSE IF listed = "no match" THEN Outcome("RuntimeError", delivered, "", "")
    ELSE IF hashlib_for(t.remote_checksum_name) = "None"
         THEN Outcome("RuntimeError", delivered, "", listed)
    ELSE LET computed_checksum == hexdigest(hashlib_for(t.remote_checksum_name), delivered)
             expected_checksum == listed
         IN IF computed_checksum # expected_checksum
            \* the message is formatted with self.local_destination, an
            \* attribute no Tarball has
            THEN Outcome("AttributeError", delivered, computed_checksum, expected_checksum)
            ELSE Outcome("", delivered, computed_checksum, expected_checksum)

TarballObjects ==
    [local_location : BOOLEAN,
     base_download_url : BOOLEAN,
     remote_checksum_name : CHECKSUM_NAMES]

\* the longest list of patches
MaxPatches == 2

PATCHES == {"a.patch", "b.patch"}

\* LinuxSourceManager.patches: a list of different patch files
PatchLists ==
    {l \in SeqsUpTo(PATCHES, MaxPatches) : \A i, j \in DOMAIN l : i # j => l[i] # l[j]}

\* a source manager with its tarball: the fields of the Tarball and the
\* patches of a LinuxSourceManager
SourceManagers ==
    [local_location : BOOLEAN,
     base_download_url : BOOLEAN,
     remote_checksum_name : CHECKSUM_NAMES,
     patches : PatchLists]

\* no call is under way: the script can call download() or prepare()
TarballIdle == {"download", "return", "RuntimeError", "CalledProcessError", "AttributeError"}

\* Path.exists()
exists(path) == path # "absent"

\* the number of the call whose download() left a file behind that did not
\* pass the verification: the checksum block raised after curl had written it
rejected_in(before, o, n, r) ==
    IF ~exists(before) /\ exists(o.file) /\ o.exc \in {"RuntimeError", "AttributeError"}
    THEN n ELSE r

tarballFrame ==
    <<prog, defines, args, pgo_i, mode, perf, bolt_builder, files, repo, env>>

TarballDownload ==
    /\ TarballProg
    /\ pc \in TarballIdle
    /\ run < MaxCalls
    /\ \E curl_ok \in BOOLEAN, delivered \in CONTENTS, partial \in {"absent", "damaged"},
          sums_ok \in BOOLEAN, listed \in LISTED :
         LET o == Tarball_download(args, fs.tarball, curl_ok, delivered, partial,
                                   sums_ok, listed)
         IN /\ fs' = [fs EXCEPT !.tarball = o.file]
            /\ last' = [exc |-> o.exc, computed |-> o.computed, expected |-> o.expected]
            /\ out' = [out EXCEPT !.rejected_in =
                                      rejected_in(fs.tarball, o, run + 1, out.rejected_in)]
            /\ pc' = IF o.exc = "" THEN "return" ELSE o.exc
    /\ run' = run + 1
    /\ UNCHANGED <<stage, log, tarballFrame>>

\* Tarball.extract: mkdir of the extraction location, then tar
Tarball_extract(file, folder, tar_ok) ==
    IF ~exists(file) THEN [exc |-> "RuntimeError", folder |-> folder, tar |-> FALSE]
    ELSE IF tar_ok THEN [exc |-> "", folder |-> file, tar |-> TRUE]
    ELSE [exc |-> "CalledProcessError", folder |-> "partial", tar |-> TRUE]

\* BinutilsSourceManager.prepare
BinutilsPrepare ==
    /\ TarballProg
    /\ pc \in TarballIdle
    /\ run < MaxCalls
    /\ args.patches = <<>>
    /\ \E curl_ok \in BOOLEAN, delivered \in CONTENTS, partial \in {"absent", "damaged"},
          sums_ok \in BOOLEAN, listed \in LISTED, tar_ok \in BOOLEAN :
         IF exists(fs.folder)
         THEN pc' = "return" /\ UNCHANGED <<fs, last, out, log>>
         ELSE IF ~args.local_location
         THEN pc' = "RuntimeError" /\ UNCHANGED <<fs, last, out, log>>
         ELSE LET o == IF ~exists(fs.tarball)
                       THEN Tarball_download(args, fs.tarball, curl_ok, delivered, partial,
                                             sums_ok, listed)
                       ELSE Outcome("", fs.tarball, "", "")
                  x == Tarball_extract(o.file, fs.folder, tar_ok)
              IN /\ last' = IF ~exists(fs.tarball)
                            THEN [exc |-> o.exc, computed |-> o.computed,
                                  expected |-> o.expected]
                            ELSE last
                 /\ out' = [out EXCEPT !.rejected_in =
                                rejected_in(fs.tarball, o, run + 1, out.rejected_in)]
                 /\ IF o.exc # ""
                    THEN /\ pc' = o.exc
                         /\ fs' = [fs EXCEPT !.tarball = o.file]
                         /\ log' = log
                    ELSE /\ pc' = IF x.exc = "" THEN "return" ELSE x.exc
                         /\ fs' = [fs EXCEPT !.tarball = o.file, !.folder = x.folder]
                         /\ log' = IF x.tar THEN Append(log, Entry("tar", run + 1, tar_ok))
                                   ELSE log
    /\ run' = run + 1
    /\ UNCHANGED <<stage, tarballFrame>>

\* LinuxSourceManager.prepare: self.tarball.download()
LpDownload ==
    /\ TarballProg
    /\ pc \in TarballIdle
    /\ run < MaxCalls
    /\ \E curl_ok \in BOOLEAN, delivered \in CONTENTS, partial \in {"absent", "damaged"},
          sums_ok \in BOOLEAN, listed \in LISTED :
         LET o == Tarball_download(args, fs.tarball, curl_ok, delivered, partial,
                                   sums_ok, listed)
         IN /\ fs' = [fs EXCEPT !.tarball = o.file]
            /\ last' = [exc |-> o.exc, computed |-> o.computed, expected |-> o.expected]
            /\ out' = [out EXCEPT !.rejected_in =
                                      rejected_in(fs.tarball, o, run + 1, out.rejected_in)]
            /\ pc' = IF o.exc # "" THEN o.exc
                     ELSE IF args.patches # <<>> THEN "lp_rmtree"
                     ELSE IF ~exists(fs.folder) THEN "lp_extract"
                     ELSE "return"
    /\ run' = run + 1
    /\ stage' = 1
    /\ UNCHANGED <<log, tarballFrame>>

\* shutil.rmtree(self.location, ignore_errors=True): an error of the removal
\* is not raised and leaves the folder where it is
LpRmtree ==
    /\ TarballProg
    /\ pc = "lp_rmtree"
    /\ \E removed \in BOOLEAN :
         /\ fs' = [fs EXCEPT !.folder = IF removed THEN "absent" ELSE @]
         /\ log' = Append(log, Entry("rmtree", run, removed \/ ~exists(fs.folder)))
         /\ pc' = IF ~exists(fs'.folder) THEN "lp_extract" ELSE "lp_patch"
    /\ UNCHANGED <<stage, last, out, run, tarballFrame>>

LpExtract ==
    /\ TarballProg
    /\ pc = "lp_extract"
    /\ \E tar_ok \in BOOLEAN :
         LET x == Tarball_extract(fs.tarball, fs.folder, tar_ok)
         IN /\ fs' = [fs EXCEPT !.folder = x.folder]
            /\ log' = IF x.tar THEN Append(log, Entry("tar", run, tar_ok)) ELSE log
            /\ pc' = IF x.exc # "" THEN x.exc
                     ELSE IF args.patches # <<>> THEN "lp_patch" ELSE "return"
    /\ UNCHANGED <<stage, last, out, run, tarballFrame>>

PATCH_RESULTS == {"applied", "reversed", "failed"}

\* the except clause of prepare: a CalledProcessError is raised again unless
\* the output of patch has 'Reversed (or previously applied) patch detected'
patch_raises(result) == result = "failed"

\* patch --forward with patches[stage]
LpPatch ==
    /\ TarballProg
    /\ pc = "lp_patch"
    /\ \E result \in PATCH_RESULTS :
         /\ log' = Append(log, [cmd |-> "patch", stage |-> run, ok |-> result = "applied",
                                input |-> args.patches[stage], result |-> result])
         /\ pc' = IF patch_raises(result) THEN "CalledProcessError"
                  ELSE IF stage < Len(args.patches) THEN "lp_patch" ELSE "return"
         /\ stage' = IF ~patch_raises(result) /\ stage < Len(args.patches)
                     THEN stage + 1 ELSE stage
    /\ UNCHANGED <<fs, last, out, run, tarballFrame>>

InitTarball ==
    /\ prog = "Tarball"
    /\ args \in SourceManagers
    /\ fs \in [tarball : {"absent"} \cup CONTENTS, folder : {"absent", "release"},
               previous : {FALSE}]
    /\ pc = "download"
    /\ stage = 0 /\ pgo_i = 0 /\ mode = "" /\ perf = NoProbe /\ log = <<>>
    /\ bolt_builder = NoBuilder /\ files = NoFiles
    /\ repo = NoRepo /\ last = NoLast /\ run = 0
    /\ env = NoEnv /\ out = [exc |-> "", rejected_in |-> 0] /\ defines = NoDefines

(***************************************************************************)
(* build-binutils.py: main with download_binutils                          *)
(***************************************************************************)
BinutilsMain == prog = "build-binutils.py"

\* how often the script is started in the same folder
MaxRuns == 3

\* folder.joinpath(binutils).is_dir()
is_dir(folder) == folder # "absent"

checksum_never_differs(computed, expected) == FALSE

\* file_hash.hexdigest() != match.groups()[0]
checksum_differs(computed, expected) == computed # expected

\* verify_binutils_checksum on a file holding 'content'
verify_binutils_checksum(content, sums_ok, listed) ==
    LET computed == hexdigest("sha512", content)
    IN IF ~sums_ok THEN [exc |-> "CalledProcessError", computed |-> computed, expected |-> ""]
       ELSE IF listed = "no match"
            THEN [exc |-> "RuntimeError", computed |-> computed, expected |-> ""]
       ELSE IF checksum_differs(computed, listed)
            THEN [exc |-> "RuntimeError", computed |-> computed, expected |-> listed]
       ELSE [exc |-> "", computed |-> computed, expected |-> listed]

binutilsFrame ==
    <<prog, defines, args, stage, pgo_i, mode, perf, bolt_builder, files, repo, env, out>>

\* main: --binutils-folder skips download_binutils; download_binutils does
\* nothing when the source folder is there and otherwise removes binutils-*
DbStart ==
    /\ BinutilsMain
    /\ pc = "download_binutils"
    /\ IF args.binutils_folder \/ is_dir(fs.folder)
       THEN /\ pc' = "build_targets"
            /\ fs' = fs
       ELSE /\ pc' = "db_curl"
            /\ fs' = [tarball |-> "absent", folder |-> "absent", previous |-> FALSE]
    /\ UNCHANGED <<log, last, run, binutilsFrame>>

\* curl -LSs -o <tarball>: without -f an error page of the server is saved
\* with exit status 0
DbCurl ==
    /\ BinutilsMain
    /\ pc = "db_curl"
    /\ \E ok \in BOOLEAN, delivered \in CONTENTS, partial \in {"absent", "damaged"} :
         /\ fs' = [fs EXCEPT !.tarball = IF ok THEN delivered ELSE partial]
         /\ log' = Append(log, Entry("curl tarball", run, ok))
         /\ pc' = run_checked(ok, Cont("db_verify", 0, 0)).pc
    /\ UNCHANGED <<last, run, binutilsFrame>>

DbVerify ==
    /\ BinutilsMain
    /\ pc = "db_verify"
    /\ \E sums_ok \in BOOLEAN, listed \in LISTED :
         LET v == verify_binutils_checksum(fs.tarball, sums_ok, listed)
         IN /\ last' = v
            /\ log' = Append(log, Entry("curl sha512.sum", run, sums_ok))
            /\ pc' = IF v.exc = "" THEN "db_extract" ELSE v.exc
    /\ UNCHANGED <<fs, run, binutilsFrame>>

\* tar -xJf, create_gitignore, unlink; a tar that fails may have created
\* part of the folder
DbExtract ==
    /\ BinutilsMain
    /\ pc = "db_extract"
    /\ \E ok \in BOOLEAN, partial \in {"absent", "partial"} :
         /\ fs' = IF ok THEN [fs EXCEPT !.folder = fs.tarball, !.tarball = "absent"]
                  ELSE [fs EXCEPT !.folder = partial]
         /\ log' = Append(log, Entry("tar -xJf", run, ok))
         /\ pc' = run_checked(ok, Cont("build_targets", 0, 0)).pc
    /\ UNCHANGED <<last, run, binutilsFrame>>

\* the script is started again in the same folder
DbRerun ==
    /\ BinutilsMain
    /\ pc \in {"build_targets", "CalledProcessError", "RuntimeError"}
    /\ run < MaxRuns
    /\ run' = run + 1
    /\ pc' = "download_binutils"
    /\ last' = NoLast
    /\ UNCHANGED <<log, fs, binutilsFrame>>

InitBinutilsMain ==
    /\ prog = "build-binutils.py"
    /\ args \in [binutils_folder : BOOLEAN]
    /\ fs \in [tarball : {"absent"} \cup CONTENTS,
               folder : {"absent", "release"},
               previous : BOOLEAN]
    /\ pc = "download_binutils"
    /\ run = 1
    /\ stage = 0 /\ pgo_i = 0 /\ mode = "" /\ perf = NoProbe /\ log = <<>>
    /\ bolt_builder = NoBuilder /\ files = NoFiles
    /\ repo = NoRepo /\ last = NoLast
    /\ env = NoEnv /\ out = NoOut /\ defines = NoDefines

(***************************************************************************)
(* build-llvm.py: kernel_build_sh, the targets handed to kernel/build.sh   *)
(***************************************************************************)
KernelBuildShProg == prog = "kernel_build_sh"

\* the longest --targets list
MaxTargets == 2

LLVM_TARGETS == {"AArch64", "ARM", "X86", "BPF"}

DEFAULT_TARGETS ==
    <<"AArch64", "ARM", "BPF", "Hexagon", "Mips", "PowerPC", "RISCV", "SystemZ", "X86">>

\* values of platform.machine(): the last two are not keys of host_mapping
MACHINES == {"x86_64", "aarch64", "armv7l", "arm64", "i686"}

PROFILE_TYPES == {"pgo", "pgo-slim", "bolt-instrumentation", "bolt-sampling"}

\* a ';' separated --targets string as the sequence of its parts; <<>> is
\* an option that was not given and <<"all">> is the string "all"
TargetLists ==
    {<<>>, <<"all">>} \cup
    {t \in SeqsUpTo(LLVM_TARGETS, MaxTargets) :
        t # <<>> /\ \A i, j \in DOMAIN t : i # j => t[i] # t[j]}

\* get_host_llvm_target: host_mapping.get(machine), None for a machine
\* that is not a key
get_host_llvm_target(machine) ==
    CASE machine = "aarch64" -> "AArch64"
      [] machine = "armv7l" -> "ARM"
      [] machine \in {"i386", "x86_64"} -> "X86"
      [] machine \in {"mips", "mips64"} -> "Mips"
      [] machine \in {"ppc", "ppc64", "ppc64le"} -> "PowerPC"
      [] machine \in {"riscv32", "riscv64"} -> "RISCV"
      [] machine = "s390x" -> "SystemZ"
      [] OTHER -> "None"

get_targets(a) ==
    IF a.targets # <<>> THEN a.targets
    ELSE IF a.full_toolchain THEN <<"all">>
    ELSE DEFAULT_TARGETS

\* host_target in targets, on strings: no name of an LLVM target is part of
\* another one, so the substring is found iff it is one of the parts
in_string(host_target, targets) == \E i \in DOMAIN targets : targets[i] = host_target

\* kernel_build_sh: what follows '-t' on the command line of build.sh, or
\* the exception raised on the way to it
kernel_build_sh(a, profile_type, machine) ==
    LET targets == get_targets(a)
        host_target == get_host_llvm_target(machine)
    IN IF profile_type \in {"bolt-instrumentation", "bolt-sampling", "pgo-slim"}
       THEN IF targets = <<"all">>
            \* targets = None goes into the command line and subprocess.run
            \* rejects it
            THEN IF host_target = "None" THEN [exc |-> "TypeError", t |-> <<>>]
                 ELSE [exc |-> "", t |-> <<host_target>>]
            \* None in "<string>"
            ELSE IF host_target = "None" THEN [exc |-> "TypeError", t |-> <<>>]
            ELSE IF in_string(host_target, targets) THEN [exc |-> "", t |-> <<host_target>>]
            ELSE [exc |-> "", t |-> <<targets[1]>>]
       ELSE [exc |-> "", t |-> targets]

KernelBuildSh ==
    /\ KernelBuildShProg
    /\ pc = "kernel_build_sh"
    /\ out' = kernel_build_sh(args, mode, env.machine)
    /\ pc' = IF out'.exc = "" THEN "subprocess.run" ELSE out'.exc
    /\ UNCHANGED <<prog, defines, args, stage, pgo_i, mode, perf, log, bolt_builder, files,
                   repo, fs, last, run, env>>

InitKernelBuildSh ==
    /\ prog = "kernel_build_sh"
    /\ args \in [targets : TargetLists, full_toolchain : BOOLEAN]
    /\ mode \in PROFILE_TYPES
    /\ env \in [machine : MACHINES]
    /\ pc = "kernel_build_sh"
    /\ stage = 0 /\ pgo_i = 0 /\ perf = NoProbe /\ log = <<>>
    /\ bolt_builder = NoBuilder /\ files = NoFiles
    /\ repo = NoRepo /\ fs = NoFs /\ last = NoLast /\ run = 0
    /\ out = NoOut /\ defines = NoDefines

(***************************************************************************)
(* build-llvm.py: check_cc_ld_variables with linker_test                   *)
(***************************************************************************)
CheckCcLdProg == prog = "check_cc_ld_variables"

LD_VALUES == {"unset", "ld.lld", "ld.gold"}

\* the host: whether CC is in os.environ, the compiler shutil.which finds
\* ("None" for none), whether clang is 3.9 or newer, LD in os.environ,
\* whether shutil.which finds the LD value, and the first of ld.lld, ld.gold
\* and ld.bfd that is installed ("None" for none)
CcLdHosts ==
    [CC_set : BOOLEAN,
     cc : {"clang", "gcc", "None"},
     clang_new : BOOLEAN,
     LD : LD_VALUES,
     ld_found : BOOLEAN,
     linker : {"lld", "gold", "bfd", "None"}]

\* shutil.which: the full path of a command, None when it is not in PATH
which(name, found) ==
    IF ~found THEN "None"
    ELSE CASE name = "ld.lld" -> "/usr/bin/ld.lld"
           [] name = "ld.gold" -> "/usr/bin/ld.gold"
           [] name = "ld.bfd" -> "/usr/bin/ld.bfd"
           [] OTHER -> "None"

\* f"ld.{linker}"
ld_name(linker) ==
    CASE linker = "lld" -> "ld.lld"
      [] linker = "gold" -> "ld.gold"
      [] linker = "bfd" -> "ld.bfd"
      [] OTHER -> "None"

\* "clang" in cc.stem
is_clang(e) == e.cc = "clang"

\* check_cc_ld_variables up to the linker: the exception of the compiler
\* search, the linker it goes on with, and whether linker_test is called on it
ld_candidate(e) ==
    IF e.cc = "None"
    THEN [exc |-> IF e.CC_set THEN "TypeError" ELSE "RuntimeError",
          ld |-> "None", test |-> FALSE]
    ELSE IF e.LD # "unset"
    THEN [exc |-> "",
          ld |-> IF is_clang(e) /\ e.clang_new THEN which(e.LD, e.ld_found) ELSE e.LD,
          test |-> TRUE]
    ELSE IF is_clang(e)
    THEN [exc |-> "",
          ld |-> IF ~e.clang_new
                 THEN (IF e.linker = "None" THEN "bfd" ELSE e.linker)
                 ELSE which(ld_name(e.linker), e.linker # "None"),
          test |-> FALSE]
    ELSE [exc |-> "", ld |-> "gold", test |-> TRUE]

\* if linker_test(cc, ld): ld = None
after_linker_test(test_ok, ld) == IF test_ok THEN "None" ELSE ld

ccLdFrame ==
    <<prog, defines, args, stage, pgo_i, mode, perf, bolt_builder, files, repo, fs, last, run, env>>

CheckCcLd ==
    /\ CheckCcLdProg
    /\ pc = "check_cc_ld_variables"
    /\ LET c == ld_candidate(env)
       IN /\ out' = [exc |-> c.exc, candidate |-> c.ld, ld |-> c.ld]
          /\ pc' = IF c.exc # "" THEN c.exc
                   ELSE IF c.test THEN "linker_test" ELSE "return"
    /\ UNCHANGED <<log, ccLdFrame>>

\* cc -fuse-ld=<ld> -o /dev/null -x c -: no compiler links with a linker
\* called None
LinkerTest ==
    /\ CheckCcLdProg
    /\ pc = "linker_test"
    /\ \E test_ok \in (IF out.candidate = "None" THEN {FALSE} ELSE BOOLEAN) :
         /\ log' = Append(log, Entry("cc -fuse-ld", 0, test_ok))
         /\ out' = [out EXCEPT !.ld = after_linker_test(test_ok, out.candidate)]
    /\ pc' = "return"
    /\ UNCHANGED ccLdFrame

InitCheckCcLd ==
    /\ prog = "check_cc_ld_variables"
    /\ env \in CcLdHosts
    /\ pc = "check_cc_ld_variables"
    /\ args = [root_folder |-> TRUE]
    /\ stage = 0 /\ pgo_i = 0 /\ mode = "" /\ perf = NoProbe /\ log = <<>>
    /\ bolt_builder = NoBuilder /\ files = NoFiles
    /\ repo = NoRepo /\ fs = NoFs /\ last = NoLast /\ run = 0
    /\ out = NoOut /\ defines = NoDefines

(***************************************************************************)
(* build-binutils.py: create_targets and build_targets                     *)
(***************************************************************************)
BinutilsTargets == prog = "build_targets"

\* the longest --targets list
MaxInputs == 2

\* a target triple, or the first part of one, as the sequence of the parts
\* that '-' separates
TARGET_INPUTS ==
    {<<"all">>, <<"host">>, <<"arm">>, <<"arm", "linux", "gnueabihf">>,
     <<"x86_64">>, <<"x86_64", "linux", "gnu">>, <<"sparc">>}

BINUTILS_MACHINES == {"x86_64", "aarch64", "armv7l", "ppc64le", "i686"}

\* the keys of targets_dict, in the order of the dictionary
TARGET_KEYS ==
    <<"arm", "aarch64", "mips", "mipsel", "powerpc64", "powerpc64le", "powerpc",
      "riscv64", "s390x", "x86_64">>

targets_dict(key) ==
    IF key = "arm" THEN <<"arm", "linux", "gnueabi">> ELSE <<key, "linux", "gnu">>

\* list(targets_dict.values())
all_targets == [i \in DOMAIN TARGET_KEYS |-> targets_dict(TARGET_KEYS[i])]

host_arch_target(machine) ==
    CASE machine = "armv7l" -> "arm"
      [] machine = "ppc64" -> "powerpc64"
      [] machine = "ppc64le" -> "powerpc64le"
      [] machine = "ppc" -> "powerpc"
      [] OTHER -> machine

\* target.split("-")[0]
target_arch(target) == target[1]

host_is_target_unmapped(target, machine) == machine = target_arch(target)

host_is_target(target, machine) == host_arch_target(machine) = target_arch(target)

RECURSIVE create_targets_from(_, _, _, _)
\* the loop of create_targets from input i on, targets_set being acc
create_targets_from(targets, i, acc, machine) ==
    IF i > Len(targets) THEN [exc |-> "", all |-> FALSE, set |-> acc]
    ELSE IF targets[i] = <<"all">> THEN [exc |-> "", all |-> TRUE, set |-> {}]
    ELSE LET key == IF targets[i] = <<"host">> THEN host_arch_target(machine)
                    ELSE target_arch(targets[i])
         IN IF \A k \in DOMAIN TARGET_KEYS : TARGET_KEYS[k] # key
            THEN [exc |-> "KeyError", all |-> FALSE, set |-> acc]
            ELSE create_targets_from(targets, i + 1, acc \cup {targets_dict(key)}, machine)

create_targets(targets, machine) == create_targets_from(targets, 1, {}, machine)

\* list(targets_set): the elements of the set in an order Python chooses
lists_of(S) ==
    {l \in SeqsUpTo(S, Cardinality(S)) :
        Len(l) = Cardinality(S) /\ \A i, j \in DOMAIN l : i # j => l[i] # l[j]}

\* the options of invoke_configure that depend on its arguments; <<>> is an
\* option that is not on the command line
configure_cmd(target, install_folder, machine) ==
    [prefix |-> install_folder,
     program_prefix |-> IF ~host_is_target(target, machine) THEN Append(target, "") ELSE <<>>,
     target |-> IF ~host_is_target(target, machine) THEN target ELSE <<>>]

\* build_targets: the next target of the loop
next_target(o, i) == IF i < Len(o.targets) THEN "invoke_configure" ELSE "done"

targetsFrame ==
    <<prog, defines, args, pgo_i, mode, perf, bolt_builder, files, repo, fs, last, run, env>>

CreateTargets ==
    /\ BinutilsTargets
    /\ pc = "create_targets"
    /\ LET r == create_targets(args.targets, env.machine)
       IN \E l \in (IF r.all THEN {all_targets} ELSE lists_of(r.set)) :
            /\ out' = [exc |-> r.exc, targets |-> IF r.exc = "" THEN l ELSE <<>>,
                       cmds |-> <<>>]
            /\ pc' = IF r.exc = "" THEN "invoke_configure" ELSE r.exc
    /\ stage' = 1
    /\ UNCHANGED <<log, targetsFrame>>

InvokeConfigure ==
    /\ BinutilsTargets
    /\ pc = "invoke_configure"
    /\ out' = [out EXCEPT !.cmds = Append(@, configure_cmd(out.targets[stage],
                                                             args.install_folder,
                                                             env.machine))]
    /\ \E ok \in BOOLEAN :
         /\ log' = Append(log, Entry("configure", stage, ok))
         /\ pc' = run_checked(ok, Cont(IF host_is_target(out.targets[stage], env.machine)
                                       THEN "make configure-host" ELSE "make",
                                       0, 0)).pc
    /\ UNCHANGED <<stage, targetsFrame>>

MakeConfigureHost ==
    /\ BinutilsTargets
    /\ pc = "make configure-host"
    /\ \E ok \in BOOLEAN :
         /\ log' = Append(log, Entry("make configure-host", stage, ok))
         /\ pc' = run_checked(ok, Cont("make", 0, 0)).pc
    /\ UNCHANGED <<stage, out, targetsFrame>>

Make ==
    /\ BinutilsTargets
    /\ pc = "make"
    /\ \E ok \in BOOLEAN :
         /\ log' = Append(log, Entry("make", stage, ok))
         /\ pc' = run_checked(ok, Cont(IF args.install_folder THEN "make install"
                                       ELSE next_target(out, stage), 0, 0)).pc
         /\ stage' = IF ok /\ ~args.install_folder /\ stage < Len(out.targets)
                     THEN stage + 1 ELSE stage
    /\ UNCHANGED <<out, targetsFrame>>

MakeInstall ==
    /\ BinutilsTargets
    /\ pc = "make install"
    /\ \E ok \in BOOLEAN :
         /\ log' = Append(log, Entry("make install", stage, ok))
         /\ pc' = run_checked(ok, Cont(next_target(out, stage), 0, 0)).pc
         /\ stage' = IF ok /\ stage < Len(out.targets) THEN stage + 1 ELSE stage
    /\ UNCHANGED <<out, targetsFrame>>

InitBinutilsTargets ==
    /\ prog = "build_targets"
    /\ args \in [targets : {t \in SeqsUpTo(TARGET_INPUTS, MaxInputs) : t # <<>>},
                 install_folder : BOOLEAN]
    /\ env \in [machine : BINUTILS_MACHINES]
    /\ pc = "create_targets"
    /\ stage = 0 /\ pgo_i = 0 /\ mode = "" /\ perf = NoProbe /\ log = <<>>
    /\ bolt_builder = NoBuilder /\ files = NoFiles
    /\ repo = NoRepo /\ fs = NoFs /\ last = NoLast /\ run = 0
    /\ out = NoOut /\ defines = NoDefines

Init ==
    \/ InitBuildLLVM
    \/ InitBoltClang
    \/ InitLLVMMain
    \/ InitRustMain
    \/ InitTarball
    \/ InitBinutilsMain
    \/ InitKernelBuildSh
    \/ InitCheckCcLd
    \/ InitBinutilsTargets

Next ==
    \/ InvokeCmake
    \/ InvokeNinja
    \/ NinjaCheck
    \/ NinjaInstall
    \/ PgoNinjaCheck
    \/ PgoKernelBuildSh
    \/ LlvmProfdata
    \/ DoBolt
    \/ BoltInstrument
    \/ BoltKernelBuildSh
    \/ MergeFdata
    \/ Perf2Bolt
    \/ BoltOptimize
    \/ BcSelectMode
    \/ BcInstrument
    \/ BcBuild
    \/ BcMergeFdata
    \/ BcPerf2Bolt
    \/ BcOptimize
    \/ MainStart
    \/ GitFetch
    \/ GitCheckout
    \/ GitPull
    \/ GitClone
    \/ GitCheckoutClone
    \/ RustStart
    \/ RsGitClone
    \/ RsGitCheckoutClone
    \/ RsGitFetch
    \/ RsGitCheckout
    \/ RsGitPull
    \/ TarballDownload
    \/ DbStart
    \/ DbCurl
    \/ DbVerify
    \/ DbExtract
    \/ DbRerun
    \/ KernelBuildSh
    \/ CheckCcLd
    \/ LinkerTest
    \/ CreateTargets
    \/ InvokeConfigure
    \/ MakeConfigureHost
    \/ Make
    \/ MakeInstall
    \/ BinutilsPrepare
    \/ LpDownload
    \/ LpRmtree
    \/ LpExtract
    \/ LpPatch

Spec == Init /\ [][Next]_vars

(***************************************************************************)
(* Reading the log                                                         *)
(***************************************************************************)
\* positions of the log at which cmd was started for stage s
At(cmd, s) == {i \in DOMAIN log : log[i].cmd = cmd /\ log[i].stage = s}

\* positions at which cmd was started, for any stage
Ran(cmd) == {i \in DOMAIN log : log[i].cmd = cmd}

\* positions at which cmd exited with 0
Succeeded(cmd) == {i \in DOMAIN log : log[i].cmd = cmd /\ log[i].ok}

\* positions that belong to the benchmarks of generate_pgo_profiles
PgoBenchmarkSteps ==
    {i \in DOMAIN log :
        \/ log[i].cmd \in {"build.sh --pgo", "build.sh --pgo-slim"}
        \/ log[i].stage = PGO
        \/ log[i].cmd = "ninja check" /\ log[i].stage = 2 /\ args.pgo # <<>>}

PgoEntries(target) == {i \in DOMAIN args.pgo : args.pgo[i][1] = target}

(***************************************************************************)
(* C1: the stages of do_multistage_build run in the order 1, 2, 3, each at *)
(* most once; stage 2 runs iff --build-stage1-only is not set and stage 3  *)
(* iff --pgo is given as well; the ninja of a stage starts right after the *)
(* cmake of that stage has succeeded; with --pgo every benchmark and the   *)
(* llvm-profdata merge lie after the successful ninja of stage 2 and       *)
(* before the cmake of stage 3, and stage 3 is configured only after all   *)
(* of them have run.                                                       *)
(***************************************************************************)
C1_StageOrder ==
    LLVMPipeline =>
        /\ \A s \in 1..3 :
              /\ Cardinality(At("cmake", s)) <= 1
              /\ Cardinality(At("ninja", s)) <= 1
        /\ \A i, j \in DOMAIN log :
              (/\ i < j
               /\ log[i].cmd \in {"cmake", "ninja"} /\ log[i].stage \in 1..3
               /\ log[j].cmd \in {"cmake", "ninja"} /\ log[j].stage \in 1..3)
                  => log[i].stage <= log[j].stage
        /\ \A j \in Ran("ninja") :
              j > 1 /\ log[j - 1] = Entry("cmake", log[j].stage, TRUE)
        /\ \A j \in Ran("cmake") :
              log[j].stage \in 2..3 => Entry("ninja", log[j].stage - 1, TRUE) \in
                                          {log[i] : i \in 1..(j - 1)}
        /\ At("cmake", 2) # {} => ~args.build_stage1_only
        /\ At("cmake", 3) # {} => ~args.build_stage1_only /\ args.pgo # <<>>
        /\ pc = "done" =>
              /\ At("ninja", 1) # {}
              /\ At("ninja", 2) # {} <=> ~args.build_stage1_only
              /\ At("ninja", 3) # {} <=> ~args.build_stage1_only /\ args.pgo # <<>>
        /\ \A b \in PgoBenchmarkSteps \cup Ran("llvm-profdata merge") :
              /\ \E n \in At("ninja", 2) : n < b /\ log[n].ok
              /\ \A c \in At("cmake", 3) : b < c
        /\ \A c \in At("cmake", 3) :
              /\ Succeeded("llvm-profdata merge") # {}
              /\ Cardinality(Succeeded("build.sh --pgo")
                                \cup Succeeded("build.sh --pgo-slim"))
                    = Cardinality(PgoEntries("kernel"))
              /\ Cardinality({i \in Succeeded("ninja") : log[i].stage = PGO})
                    = Cardinality(PgoEntries("llvm"))

\* a --pgo run with two benchmarks got through stage 3
C1_Witness ==
    /\ LLVMPipeline
    /\ pc = "done"
    /\ Len(args.pgo) = 2
    /\ PgoEntries("llvm") # {} /\ PgoEntries("kernel") # {}
    /\ At("ninja", 3) # {}

(***************************************************************************)
(* C2: a cmake, ninja, kernel/build.sh, llvm-profdata, merge-fdata,        *)
(* perf2bolt or llvm-bolt subprocess that exits non-zero is the last       *)
(* subprocess of the run: nothing is started after it, the same command    *)
(* included, and the run has ended with CalledProcessError.                *)
(***************************************************************************)
C2_FirstFailureEndsRun ==
    LLVMPipeline =>
        \A i \in DOMAIN log :
            (log[i].cmd # "can_use_perf" /\ ~log[i].ok)
                => i = Len(log) /\ pc = "CalledProcessError"

\* the merge of the BOLT profiles failed after both stages had been built
C2_Witness ==
    /\ LLVMPipeline
    /\ pc = "CalledProcessError"
    /\ \E i \in Ran("merge-fdata") : ~log[i].ok

(***************************************************************************)
(* C3: 'ninja install' is started at most once; it is started for the last *)
(* stage of the run only, after that stage's ninja (and its check targets) *)
(* have succeeded, and no stage is configured or built after it; a run     *)
(* with --build-stage1-only that ends normally has installed the toolchain *)
(* iff --install-stage1-only was given.                                    *)
(***************************************************************************)
C3_InstallOnceFinalStage ==
    LLVMPipeline =>
        /\ Cardinality(Ran("ninja install")) <= 1
        /\ \A i \in Ran("ninja install") :
              /\ log[i].stage = Stages(args)[Len(Stages(args))]
              /\ \E n \in At("ninja", log[i].stage) : n < i /\ log[n].ok
              /\ args.check_targets => log[i - 1] = Entry("ninja check", log[i].stage, TRUE)
              /\ \A j \in DOMAIN log :
                    j > i => log[j].cmd \notin {"cmake", "ninja", "ninja check"}
        /\ (args.build_stage1_only /\ pc = "done") =>
              (Succeeded("ninja install") # {} <=> args.install_stage1_only)
        /\ (~args.build_stage1_only /\ pc = "done") => Succeeded("ninja install") # {}

\* a stage 1 only build that was installed, and a three stage build that was
C3_Witness ==
    /\ LLVMPipeline
    /\ pc = "done"
    /\ Succeeded("ninja install") # {}
    /\ args.build_stage1_only \/ Len(args.pgo) = MaxPgo

(***************************************************************************)
(* C4: with --bolt, a run in which every subprocess succeeds has run the   *)
(* BOLT optimization of clang exactly once, after the ninja of the last    *)
(* stage, whatever the other options are.                                  *)
(***************************************************************************)
C4_BoltRunsOnce ==
    (LLVMPipeline /\ pc = "done" /\ args.bolt) =>
        /\ Cardinality(Ran("llvm-bolt")) = 1
        /\ \A b \in Ran("llvm-bolt") :
              \E n \in At("ninja", Stages(args)[Len(Stages(args))]) : n < b

(***************************************************************************)
(* C5: do_bolt and LLVMBuilder.bolt_clang work in sampling mode iff perf   *)
(* is found and its branch sampling probe exits with 0, in instrumentation *)
(* mode otherwise.  In sampling mode nothing is instrumented and no        *)
(* merge-fdata runs, perf2bolt runs after the profiling kernel build; in   *)
(* instrumentation mode perf2bolt never runs, the kernel build starts only *)
(* after llvm-bolt --instrument has succeeded and merge-fdata only after   *)
(* the kernel build; the kernel build is told the selected mode; the final *)
(* llvm-bolt runs only after the profile of the selected mode is there.    *)
(***************************************************************************)
Instrumentations ==
    Succeeded("llvm-bolt --instrument")
        \cup Succeeded("llvm-bolt --instrument --conservative-instrumentation")

ProfilingBuilds ==
    Ran("build.sh --bolt-sampling") \cup Ran("build.sh --bolt-instrumentation")
        \cup Ran("bolt_builder.build")

C5_BoltModeSelection ==
    ((LLVMPipeline \/ BoltClang) /\ Ran("can_use_perf") # {}) =>
        LET sampling == perf.which /\ perf.probe_ok
        IN /\ mode = IF sampling THEN "sampling" ELSE "instrumentation"
           /\ sampling =>
                 /\ Instrumentations = {} /\ Ran("merge-fdata") = {}
                 /\ Ran("build.sh --bolt-instrumentation") = {}
                 /\ \A k \in Ran("perf2bolt") :
                       \E j \in ProfilingBuilds : j < k /\ log[j].ok
                 /\ pc = "bc_build" =>
                       /\ bolt_builder.bolt_sampling_output
                       /\ ~bolt_builder.bolt_instrumentation
                       /\ files.real = "built"
                 /\ Ran("llvm-bolt") # {} => Succeeded("perf2bolt") # {}
           /\ ~sampling =>
                 /\ Ran("perf2bolt") = {}
                 /\ Ran("build.sh --bolt-sampling") = {}
                 /\ \A j \in ProfilingBuilds : \E i \in Instrumentations : i < j
                 /\ \A k \in Ran("merge-fdata") :
                       \E j \in ProfilingBuilds : j < k /\ log[j].ok
                 /\ pc = "bc_build" =>
                       /\ ~bolt_builder.bolt_sampling_output
                       /\ bolt_builder.bolt_instrumentation \/ files.real = "instrumented"
                 /\ Ran("llvm-bolt") # {} => Succeeded("merge-fdata") # {}

\* both functions have optimized clang in both modes
C5_WitnessSampling ==
    /\ LLVMPipeline \/ BoltClang
    /\ pc = "done"
    /\ mode = "sampling"
    /\ Succeeded("llvm-bolt") # {}

C5_Witness ==
    /\ BoltClang
    /\ pc = "done"
    /\ mode = "instrumentation"
    /\ Succeeded("llvm-bolt") # {}

(***************************************************************************)
(* C6: when Tarball.download() has computed a digest of the downloaded     *)
(* file that differs from the digest listed in the remote checksum file,   *)
(* it has raised RuntimeError.                                             *)
(***************************************************************************)
C6_MismatchRaisesRuntimeError ==
    (TarballProg /\ last.computed # "" /\ last.computed # last.expected)
        => pc = "RuntimeError"

(***************************************************************************)
(* C7: download_binutils extracts the tarball only after its SHA-512       *)
(* digest was found equal to the one listed in sha512.sum; a run whose     *)
(* verification failed has run no tar and has created no source folder,    *)
(* and the run after it removes the tarball, downloads and verifies again  *)
(* before it builds.                                                       *)
(***************************************************************************)
InRun(cmd, r) == {i \in DOMAIN log : log[i].cmd = cmd /\ log[i].stage = r}

\* run r downloaded a tarball and ran no tar: its verification failed
VerificationFailed(r) ==
    /\ \E i \in InRun("curl tarball", r) : log[i].ok
    /\ InRun("tar -xJf", r) = {}
    /\ r < run \/ pc \in {"RuntimeError", "CalledProcessError"}

C7_ExtractOnlyVerified ==
    BinutilsMain =>
        /\ pc = "db_extract" =>
             /\ last.exc = ""
             /\ last.computed = hexdigest("sha512", fs.tarball)
             /\ last.computed = last.expected
        /\ \A i \in Ran("tar -xJf") :
             \E j \in Succeeded("curl sha512.sum") : j < i /\ log[j].stage = log[i].stage
        /\ (pc = "RuntimeError" \/ VerificationFailed(run)) =>
             /\ ~is_dir(fs.folder)
             /\ InRun("tar -xJf", run) = {}
        /\ pc = "db_curl" => fs.tarball = "absent"
        /\ (run > 1 /\ VerificationFailed(run - 1)
                /\ ~args.binutils_folder /\ pc = "build_targets") =>
             \E i \in InRun("curl tarball", run), j \in InRun("curl sha512.sum", run),
                k \in InRun("tar -xJf", run) :
                 i < j /\ j < k /\ log[i].ok /\ log[j].ok /\ log[k].ok

\* the first run stopped at a digest that differs from the listed one, the
\* second run downloaded, verified and extracted
C7_Witness ==
    /\ BinutilsMain
    /\ run = 2
    /\ VerificationFailed(1)
    /\ \E j \in InRun("curl sha512.sum", 1) : log[j].ok
    /\ pc = "build_targets"
    /\ \E k \in InRun("tar -xJf", 2) : log[k].ok
    /\ fs.folder = "release" /\ fs.tarball = "absent"

(***************************************************************************)
(* C8: build-llvm.py has run no git command when it reaches cleanup() if   *)
(* --llvm-folder was given, or if --no-update was given and the            *)
(* llvm-project folder was there when the script started.                  *)
(***************************************************************************)
GitCommands ==
    {"git clone", "git clone --depth 1", "git clone --depth 1 --no-single-branch",
     "git fetch origin", "git checkout", "git pull --rebase"}

NoGit == \A i \in DOMAIN log : log[i].cmd \notin GitCommands

C8_NoUpdateRunsNoGit ==
    (LLVMMain /\ (args.llvm_folder \/ (args.no_update /\ repo.exists /\ ~repo.cloned)))
        => NoGit /\ pc \in {"main", "cleanup", "sys.exit(1)"}

\* --no-update with the folder in place has reached the build
C8_Witness ==
    /\ LLVMMain
    /\ pc = "cleanup"
    /\ ~args.llvm_folder /\ args.no_update /\ repo.exists /\ ~repo.cloned

(***************************************************************************)
(* C9: after a successful 'git fetch origin' on a repository that is a     *)
(* shallow clone and does not have the requested ref, the update has       *)
(* stopped with an error (sys.exit(1) in fetch_llvm, RuntimeError in       *)
(* GitSourceManager.update) and git checkout and git pull were not run.    *)
(***************************************************************************)
C9_ShallowMissingRefStops ==
    ((LLVMMain \/ RustMain)
        /\ Succeeded("git fetch origin") # {}
        /\ repo.shallow /\ ~repo.ref_exists)
            => /\ pc = IF LLVMMain THEN "sys.exit(1)" ELSE "RuntimeError"
               /\ Ran("git checkout") = {}
               /\ Ran("git pull --rebase") = {}

(***************************************************************************)
(* C10: with --rust-folder, build-rust.py runs no git clone, fetch,        *)
(* checkout or pull, whatever --ref, --use-good-revision and --no-update   *)
(* are.                                                                    *)
(***************************************************************************)
C10_RustFolderRunsNoGit ==
    (RustMain /\ args.rust_folder) => NoGit

\* a given folder, an update not switched off and another ref than main:
\* the script is about to configure the build
C10_Witness ==
    /\ RustMain
    /\ args.rust_folder /\ ~args.no_update /\ args.ref # "main"
    /\ pc = "configure"

(***************************************************************************)
(* C11: for the BOLT profile types and for pgo-slim, kernel_build_sh has   *)
(* passed exactly one target to kernel/build.sh: the host's LLVM target    *)
(* when the target list is "all" or names it, otherwise the first target   *)
(* of the list; on every host machine and for every target list.           *)
(***************************************************************************)
C11_OneKernelTarget ==
    (KernelBuildShProg /\ pc # "kernel_build_sh"
        /\ mode \in {"pgo-slim", "bolt-instrumentation", "bolt-sampling"})
        => /\ pc = "subprocess.run"
           /\ Len(out.t) = 1
           /\ LET targets == get_targets(args)
                  host_target == get_host_llvm_target(env.machine)
              IN out.t[1] = IF targets = <<"all">>
                                 \/ \E i \in DOMAIN targets : targets[i] = host_target
                            THEN host_target
                            ELSE targets[1]

(***************************************************************************)
(* C12: when check_cc_ld_variables has run linker_test on a candidate      *)
(* linker (the LD value, or gold with gcc), it returns the candidate if    *)
(* the -fuse-ld test succeeded and no linker only if the test failed.      *)
(***************************************************************************)
C12_LinkerKeptWhenTestSucceeds ==
    (CheckCcLdProg /\ pc = "return" /\ Ran("cc -fuse-ld") # {})
        => \A i \in Ran("cc -fuse-ld") :
             /\ log[i].ok => out.ld = out.candidate
             /\ ~log[i].ok => out.ld = "None"

(***************************************************************************)
(* C13: every configure command of build-binutils.py carries               *)
(* --program-prefix=<target>- and --target=<target> if and only if the     *)
(* architecture of its target triple differs from the host architecture    *)
(* as host_arch_target names it.                                           *)
(***************************************************************************)
C13_PrefixIffCross ==
    (BinutilsTargets /\ pc # "create_targets") =>
        \A i \in DOMAIN out.cmds :
            LET t == out.targets[i]
                cross == t[1] # host_arch_target(env.machine)
            IN /\ cross => (out.cmds[i].program_prefix = t \o <<"">>
                            /\ out.cmds[i].target = t)
               /\ ~cross => (out.cmds[i].program_prefix = <<>>
                             /\ out.cmds[i].target = <<>>)

\* on a host whose machine name is mapped, one configure for the host and
\* one for another architecture
C13_Witness ==
    /\ BinutilsTargets /\ pc # "create_targets"
    /\ env.machine = "armv7l"
    /\ \E i, j \in DOMAIN out.cmds :
         /\ out.targets[i] = <<"arm", "linux", "gnueabi">> /\ out.cmds[i].target = <<>>
         /\ out.cmds[j].target = <<"x86_64", "linux", "gnu">>

(***************************************************************************)
(* C14: create_targets has returned every supported triple when "all" is   *)
(* among the inputs; otherwise it has returned, once each, the supported   *)
(* triples of the architectures that the inputs name by a triple, by its   *)
(* first part, or by "host".                                               *)
(***************************************************************************)
SupportedTriples == {targets_dict(TARGET_KEYS[k]) : k \in DOMAIN TARGET_KEYS}

\* the architecture an input names
NamedArch(input) == IF input = <<"host">> THEN host_arch_target(env.machine) ELSE input[1]

C14_CreateTargets ==
    (BinutilsTargets /\ pc # "create_targets") =>
        LET inputs == args.targets
            returned == {out.targets[i] : i \in DOMAIN out.targets}
            archs == {NamedArch(inputs[i]) : i \in DOMAIN inputs}
        IN /\ (\E i \in DOMAIN inputs : inputs[i] = <<"all">>) =>
                 out.exc = "" /\ returned = SupportedTriples
           /\ ((\A i \in DOMAIN inputs : inputs[i] # <<"all">>)
                 /\ \A a \in archs : \E k \in DOMAIN TARGET_KEYS : TARGET_KEYS[k] = a) =>
                 /\ out.exc = ""
                 /\ returned = {t \in SupportedTriples : t[1] \in archs}
           /\ \A i, j \in DOMAIN out.targets : i # j => out.targets[i] # out.targets[j]

(***************************************************************************)
(* C15: no stage after get_final_stage(args) is configured or built, and   *)
(* a run that ends without a failure has built that stage as its last      *)
(* one; the check targets and the installation of invoke_ninja are only    *)
(* started on it.                                                          *)
(***************************************************************************)
ExecutedStages == {s \in 1..3 : At("cmake", s) # {}}

C15_FinalStageIsLastStage ==
    LLVMPipeline =>
        /\ \A s \in ExecutedStages : s <= get_final_stage(args)
        /\ pc = "done" =>
             /\ get_final_stage(args) \in ExecutedStages
             /\ \E n \in At("ninja", get_final_stage(args)) :
                  \A j \in DOMAIN log :
                      (j > n /\ log[j].stage \in 1..3)
                          => (log[j].stage = get_final_stage(args)
                              /\ log[j].cmd \notin {"cmake", "ninja"})
        /\ pc \in {"ninja_check", "ninja_install"} =>
             /\ stage = get_final_stage(args)
             /\ \A s \in ExecutedStages : s <= stage

\* a PGO build and a stage 1 only build that ended without a failure
C15_Witness ==
    /\ LLVMPipeline
    /\ pc = "done"
    /\ args.pgo # <<>> \/ args.build_stage1_only
    /\ get_final_stage(args) \in ExecutedStages
    /\ args.check_targets /\ At("ninja check", get_final_stage(args)) # {}

(***************************************************************************)
(* C16: when do_bolt has started, the stage 1 build folder, which holds    *)
(* llvm-bolt, merge-fdata and perf2bolt, was configured with bolt in       *)
(* LLVM_ENABLE_PROJECTS or with LLVM_ENABLE_PROJECTS=all.                  *)
(***************************************************************************)
C16_BoltBuiltInStage1 ==
    (LLVMPipeline /\ Ran("can_use_perf") # {})
        => /\ At("cmake", 1) # {}
           /\ \/ defines[1] = <<"all">>
              \/ \E i \in DOMAIN defines[1] : defines[1][i] = "bolt"

(***************************************************************************)
(* C17: with remote_checksum_name set, once a download() has left behind   *)
(* a file that did not pass the verification, no later download() or       *)
(* prepare() call extracts that file.                                      *)
(***************************************************************************)
C17_RejectedFileNeverExtracted ==
    (TarballProg /\ args.remote_checksum_name # "" /\ out.rejected_in # 0)
        => \A i \in Ran("tar") : log[i].stage <= out.rejected_in

(***************************************************************************)
(* C18: a LinuxSourceManager.prepare() call with patches that has started  *)
(* patch has before, in the same call, removed the source folder and       *)
(* extracted the tarball; it starts the patches in the order of the list;  *)
(* after a patch reported as reversed or previously applied it goes on     *)
(* with the next patch; any other failure of a patch ends the call with    *)
(* CalledProcessError and no later patch is started.                       *)
(***************************************************************************)
PatchesOf(r) == {i \in DOMAIN log : log[i].cmd = "patch" /\ log[i].stage = r}

\* the position of log entry i among the patches of its call
Rank(i) == Cardinality({j \in PatchesOf(log[i].stage) : j <= i})

C18_PatchesOnFreshSource ==
    (TarballProg /\ args.patches # <<>>) =>
        \A r \in 1..run :
            /\ PatchesOf(r) # {} =>
                 \E a, b \in DOMAIN log :
                     /\ a < b /\ \A i \in PatchesOf(r) : b < i
                     /\ log[a].cmd = "rmtree" /\ log[a].stage = r /\ log[a].ok
                     /\ log[b].cmd = "tar" /\ log[b].stage = r /\ log[b].ok
            /\ \A i \in PatchesOf(r) :
                 /\ Rank(i) <= Len(args.patches)
                 /\ log[i].input = args.patches[Rank(i)]
                 /\ log[i].result = "failed" =>
                      /\ \A j \in PatchesOf(r) : j <= i
                      /\ r = run => pc = "CalledProcessError"
                 /\ (log[i].result = "reversed" /\ Rank(i) < Len(args.patches)) =>
                      \/ \E j \in PatchesOf(r) : j > i
                      \/ r = run /\ pc = "lp_patch"

====
